---- MODULE Spec2Model ----
(***************************************************************************)
(* The Voting contract (contracts/Voting.sol) as a state machine: one      *)
(* action per external function, each applied atomically by the ledger at  *)
(* the current block timestamp, a revert leaving the storage untouched.    *)
(* Candidate party and proposal strings are carried by no require and by   *)
(* no tally and are left out of the candidate record.                      *)
(***************************************************************************)
EXTENDS Integers, Sequences, FiniteSets, TLC

\* ---------------------------------------------------------------- bounds
MaxCandidates == 2
MaxDuration == 1
MaxTime == 90
BlockInterval == 30

\* ------------------------------------------------------------- constants
\* Solidity's `1 minutes`, in seconds.
MinuteSeconds == 60

Deployer == "admin"
Accounts == {"admin", "v1", "v2"}
Names == {"A"}
Durations == 0..MaxDuration
CandidateIds == 0..MaxCandidates

\* The revert reasons of the contract, and "" for a call that did not revert.
OK == ""
ErrOnlyAdmin == "Only admin can perform this action"
ErrNotStarted == "Election has not started yet"
ErrAlreadyEnded == "Election has already ended"
ErrNotActive == "Election is not active"
ErrCandidateAfterStart == "Cannot add candidate after election has started"
ErrAlreadyRegistered == "Voter is already registered"
ErrAlreadyStarted == "Election has already started"
ErrNoCandidates == "No candidates registered"
ErrNotRegistered == "You are not registered to vote"
ErrAlreadyVoted == "You have already voted"
ErrInvalidCandidate == "Invalid candidate"
ErrNotEnded == "Election has not ended yet"
\* The reason POST /api/election/start gives for a duration below 1.
ErrInvalidDuration == "Duration must be a positive integer"

\* The failure kinds of the specification, as the reasons the contract gives.
Unauthorized == {ErrOnlyAdmin}
ElectionNotActive == {ErrNotStarted, ErrAlreadyEnded, ErrNotActive}
ElectionAlreadyStarted == {ErrCandidateAfterStart}
NotRegistered == {ErrNotRegistered}
AlreadyVoted == {ErrAlreadyVoted}
ElectionNotEnded == {ErrNotEnded}
AlreadyRegistered == {ErrAlreadyRegistered}
InvalidDuration == {ErrInvalidDuration}
AlreadyStarted == {ErrAlreadyStarted}
NoCandidates == {ErrNoCandidates}

VARIABLES admin, startTime, endTime, electionStarted, electionEnded,
          candidates, voters, totalVotes, now, last, req,
          tx, nonces, sent, race

\* The contract's storage.
ledger == <<admin, startTime, endTime, electionStarted, electionEnded,
            candidates, voters, totalVotes>>

\* What the API's transaction submitter works on: the requests in flight, each
\* account's transaction count, and two records kept for the properties (the
\* nonce each signer last submitted, the course of a pair of racing votes).
api == <<tx, nonces, sent, race>>

vars == <<admin, startTime, endTime, electionStarted, electionEnded,
          candidates, voters, totalVotes, now, last, req, tx, nonces, sent, race>>

\* A voter record the mapping holds before any write: Solidity's zero value.
Voter0 == [hasVoted |-> FALSE, votedCandidateId |-> 0, isRegistered |-> FALSE]

\* ------------------------------------------------------------- modifiers
onlyAdmin_none(caller) == OK
onlyAdmin(caller) == IF caller = admin THEN OK ELSE ErrOnlyAdmin

electionActive_noWindow ==
    IF ~electionStarted THEN ErrNotStarted
    ELSE IF electionEnded THEN ErrAlreadyEnded
    ELSE OK

\* The modifier without the test of electionEnded.
electionActive_noEnded ==
    IF ~electionStarted THEN ErrNotStarted
    ELSE IF ~(now >= startTime /\ now <= endTime) THEN ErrNotActive
    ELSE OK

electionActive ==
    IF ~electionStarted THEN ErrNotStarted
    ELSE IF electionEnded THEN ErrAlreadyEnded
    ELSE IF ~(now >= startTime /\ now <= endTime) THEN ErrNotActive
    ELSE OK

\* ------------------------------------------------- the revert of each call
addCandidateRevert_noPhase(caller) == onlyAdmin(caller)

addCandidateRevert(caller) ==
    IF onlyAdmin(caller) # OK THEN onlyAdmin(caller)
    ELSE IF electionStarted THEN ErrCandidateAfterStart
    ELSE OK

registerVoterRevert_noCheck(caller, voter) == onlyAdmin(caller)

\* registerVoter closed once the election has started.
registerVoterRevert_createdOnly(caller, voter) ==
    IF onlyAdmin(caller) # OK THEN onlyAdmin(caller)
    ELSE IF electionStarted THEN ErrAlreadyStarted
    ELSE IF voters[voter].isRegistered THEN ErrAlreadyRegistered
    ELSE OK

registerVoterRevert(caller, voter) ==
    IF onlyAdmin(caller) # OK THEN onlyAdmin(caller)
    ELSE IF voters[voter].isRegistered THEN ErrAlreadyRegistered
    ELSE OK

\* startElection without the test for candidates.
startElectionRevert_anyList(caller) ==
    IF onlyAdmin(caller) # OK THEN onlyAdmin(caller)
    ELSE IF electionStarted THEN ErrAlreadyStarted
    ELSE OK

startElectionRevert(caller) ==
    IF onlyAdmin(caller) # OK THEN onlyAdmin(caller)
    ELSE IF electionStarted THEN ErrAlreadyStarted
    ELSE IF ~(Len(candidates) > 0) THEN ErrNoCandidates
    ELSE OK

voteRevert_noVoted(caller, candidateId) ==
    IF electionActive # OK THEN electionActive
    ELSE IF ~voters[caller].isRegistered THEN ErrNotRegistered
    ELSE IF ~(candidateId < Len(candidates)) THEN ErrInvalidCandidate
    ELSE OK

voteRevert_noRegistered(caller, candidateId) ==
    IF electionActive # OK THEN electionActive
    ELSE IF voters[caller].hasVoted THEN ErrAlreadyVoted
    ELSE IF ~(candidateId < Len(candidates)) THEN ErrInvalidCandidate
    ELSE OK

voteRevert(caller, candidateId) ==
    IF electionActive # OK THEN electionActive
    ELSE IF ~voters[caller].isRegistered THEN ErrNotRegistered
    ELSE IF voters[caller].hasVoted THEN ErrAlreadyVoted
    ELSE IF ~(candidateId < Len(candidates)) THEN ErrInvalidCandidate
    ELSE OK

endElectionRevert_noActive(caller) == onlyAdmin(caller)

endElectionRevert(caller) ==
    IF onlyAdmin(caller) # OK THEN onlyAdmin(caller)
    ELSE electionActive

getResultsRevert_noCheck == OK

getResultsRevert == IF ~electionEnded THEN ErrNotEnded ELSE OK

\* What getResults returns when it does not revert: the three parallel arrays.
getResults ==
    [ids |-> [i \in 1..Len(candidates) |-> candidates[i].id],
     names |-> [i \in 1..Len(candidates) |-> candidates[i].name],
     voteCounts |-> [i \in 1..Len(candidates) |-> candidates[i].voteCount]]

\* getElectionStatus with isEnded derived from the clock instead of the flag.
getElectionStatus_derived ==
    [isStarted |-> electionStarted,
     isEnded |-> electionEnded \/ (electionStarted /\ now > endTime),
     start |-> startTime, end |-> endTime, currentTime |-> now]

\* What getElectionStatus returns; it never reverts.
getElectionStatus ==
    [isStarted |-> electionStarted, isEnded |-> electionEnded,
     start |-> startTime, end |-> endTime, currentTime |-> now]

\* ---------------------------------------------------- GET /api/results
\* The HTTP status codes the handler answers with.
HttpOk == 200
HttpForbidden == 403
HttpServerError == 500

NoResults == [ids |-> <<>>, names |-> <<>>, voteCounts |-> <<>>]
NoResponse == [status |-> 0, error |-> "", totalVotes |-> 0, candidates |-> <<>>]

\* formattedResults: one object per index of the arrays getResults returned.
\* (The percentage string of each entry is not modelled; the counts here are
\* far below 2^53, where BigInt -> string -> Number is exact.)
formatResults(r) ==
    [i \in 1..Len(r.ids) |->
        [id |-> r.ids[i], name |-> r.names[i], voteCount |-> r.voteCounts[i]]]

\* Array.prototype.sort with (a, b) => b.voteCount - a.voteCount: a stable
\* sort, so x goes behind every entry that does not sort after it.
\* The same with x going in front of the entries it ties with.
RECURSIVE InsertSorted_ties(_, _)
InsertSorted_ties(x, s) ==
    IF s = <<>> THEN <<x>>
    ELSE IF x.voteCount - Head(s).voteCount >= 0 THEN <<x>> \o s
    ELSE <<Head(s)>> \o InsertSorted_ties(x, Tail(s))

RECURSIVE InsertSorted(_, _)
InsertSorted(x, s) ==
    IF s = <<>> THEN <<x>>
    ELSE IF x.voteCount - Head(s).voteCount > 0 THEN <<x>> \o s
    ELSE <<Head(s)>> \o InsertSorted(x, Tail(s))

RECURSIVE SortByVotes(_)
SortByVotes(s) ==
    IF s = <<>> THEN <<>>
    ELSE InsertSorted(s[Len(s)], SortByVotes(SubSeq(s, 1, Len(s) - 1)))

\* ------------------------------------------------------------------ state
Init ==
    /\ admin = Deployer
    /\ startTime = 0
    /\ endTime = 0
    /\ electionStarted = FALSE
    /\ electionEnded = FALSE
    /\ candidates = <<>>
    /\ voters = [a \in Accounts |-> Voter0]
    /\ totalVotes = 0
    /\ now = 0
    /\ last = [op |-> "constructor", err |-> OK]
    /\ req = [pc |-> "idle", results |-> NoResults, resp |-> NoResponse]
    /\ tx = [s \in {1, 2} |-> [pc |-> "idle", kind |-> "", who |-> "", num |-> 0,
                               from |-> "", nonce |-> 0, status |-> 0,
                               error |-> "", calls |-> 0]]
    /\ nonces = [a \in Accounts |-> 0]
    /\ sent = [a \in Accounts |-> -1]
    /\ race = [open |-> FALSE, valid |-> FALSE, base |-> 0, done |-> 0, ok |-> 0]

Called(op, err) == last' = [op |-> op, err |-> err]

\* The storage writes of each function, reverted as a whole when a require
\* fails.  The same writes happen whether the call arrives directly or as a
\* transaction the API submitted.
\* addCandidate numbering from the length after the push.
addCandidateEffect_idAfterPush(caller, name) ==
    LET err == addCandidateRevert(caller) IN
    /\ err = OK => Len(candidates) < MaxCandidates
    /\ candidates' = IF err = OK
                     THEN Append(candidates, [id |-> Len(candidates) + 1,
                                              name |-> name,
                                              voteCount |-> 0])
                     ELSE candidates
    /\ UNCHANGED <<admin, startTime, endTime, electionStarted, electionEnded,
                   voters, totalVotes>>

addCandidateEffect(caller, name) ==
    LET err == addCandidateRevert(caller) IN
    /\ err = OK => Len(candidates) < MaxCandidates
    /\ candidates' = IF err = OK
                     THEN Append(candidates, [id |-> Len(candidates),
                                              name |-> name,
                                              voteCount |-> 0])
                     ELSE candidates
    /\ UNCHANGED <<admin, startTime, endTime, electionStarted, electionEnded,
                   voters, totalVotes>>

registerVoterEffect(caller, voter) ==
    LET err == registerVoterRevert(caller, voter) IN
    /\ voters' = IF err = OK
                 THEN [voters EXCEPT ![voter].isRegistered = TRUE,
                                     ![voter].hasVoted = FALSE]
                 ELSE voters
    /\ UNCHANGED <<admin, startTime, endTime, electionStarted, electionEnded,
                   candidates, totalVotes>>

\* (The checked uint256 arithmetic of line 102 overflows, and reverts, only
\* for durations near 2^256 / 60: far beyond the Durations drawn here.)
startElectionEffect(caller, durationInMinutes) ==
    LET err == startElectionRevert(caller) IN
    /\ IF err = OK
       THEN /\ electionStarted' = TRUE
            /\ startTime' = now
            /\ endTime' = now + durationInMinutes * MinuteSeconds
       ELSE UNCHANGED <<electionStarted, startTime, endTime>>
    /\ UNCHANGED <<admin, electionEnded, candidates, voters, totalVotes>>

\* vote with the totalVotes increment forgotten.
voteEffect_noTotal(caller, candidateId) ==
    LET err == voteRevert(caller, candidateId) IN
    /\ IF err = OK
       THEN /\ voters' = [voters EXCEPT ![caller].hasVoted = TRUE,
                                        ![caller].votedCandidateId = candidateId]
            /\ candidates' = [candidates EXCEPT
                                ![candidateId + 1].voteCount = @ + 1]
       ELSE UNCHANGED <<voters, candidates>>
    /\ UNCHANGED <<admin, startTime, endTime, electionStarted, electionEnded,
                   totalVotes>>

\* vote marking the sender before the candidate id is tested, the test
\* returning early instead of reverting.
voteEffect_markFirst(caller, candidateId) ==
    LET err == voteRevert(caller, candidateId) IN
    /\ IF err = OK
       THEN /\ voters' = [voters EXCEPT ![caller].hasVoted = TRUE,
                                        ![caller].votedCandidateId = candidateId]
            /\ candidates' = [candidates EXCEPT
                                ![candidateId + 1].voteCount = @ + 1]
            /\ totalVotes' = totalVotes + 1
       ELSE /\ voters' = IF err = ErrInvalidCandidate
                         THEN [voters EXCEPT ![caller].hasVoted = TRUE]
                         ELSE voters
            /\ UNCHANGED <<candidates, totalVotes>>
    /\ UNCHANGED <<admin, startTime, endTime, electionStarted, electionEnded>>

\* vote writing a whole fresh Voter struct, isRegistered left at its zero value.
voteEffect_overwrite(caller, candidateId) ==
    LET err == voteRevert(caller, candidateId) IN
    /\ IF err = OK
       THEN /\ voters' = [voters EXCEPT ![caller] =
                             [hasVoted |-> TRUE,
                              votedCandidateId |-> candidateId,
                              isRegistered |-> FALSE]]
            /\ candidates' = [candidates EXCEPT
                                ![candidateId + 1].voteCount = @ + 1]
            /\ totalVotes' = totalVotes + 1
       ELSE UNCHANGED <<voters, candidates, totalVotes>>
    /\ UNCHANGED <<admin, startTime, endTime, electionStarted, electionEnded>>

voteEffect(caller, candidateId) ==
    LET err == voteRevert(caller, candidateId) IN
    /\ IF err = OK
       THEN /\ voters' = [voters EXCEPT ![caller].hasVoted = TRUE,
                                        ![caller].votedCandidateId = candidateId]
            /\ candidates' = [candidates EXCEPT
                                ![candidateId + 1].voteCount = @ + 1]
            /\ totalVotes' = totalVotes + 1
       ELSE UNCHANGED <<voters, candidates, totalVotes>>
    /\ UNCHANGED <<admin, startTime, endTime, electionStarted, electionEnded>>

\* vote as a function of the storage it reads and writes: the voter records,
\* the candidate list and totalVotes (the election's phase and window are
\* those of the current state).
Tally == [voters |-> voters, candidates |-> candidates, totalVotes |-> totalVotes]

voteRevertOn(st, caller, candidateId) ==
    IF electionActive # OK THEN electionActive
    ELSE IF ~st.voters[caller].isRegistered THEN ErrNotRegistered
    ELSE IF st.voters[caller].hasVoted THEN ErrAlreadyVoted
    ELSE IF ~(candidateId < Len(st.candidates)) THEN ErrInvalidCandidate
    ELSE OK

\* vote setting the candidate's count from the running total.
voteOn_fromTotal(st, caller, candidateId) ==
    IF voteRevertOn(st, caller, candidateId) # OK THEN st
    ELSE [voters |-> [st.voters EXCEPT ![caller].hasVoted = TRUE,
                                       ![caller].votedCandidateId = candidateId],
          candidates |-> [st.candidates EXCEPT
                            ![candidateId + 1].voteCount = st.totalVotes + 1],
          totalVotes |-> st.totalVotes + 1]

voteOn(st, caller, candidateId) ==
    IF voteRevertOn(st, caller, candidateId) # OK THEN st
    ELSE [voters |-> [st.voters EXCEPT ![caller].hasVoted = TRUE,
                                       ![caller].votedCandidateId = candidateId],
          candidates |-> [st.candidates EXCEPT
                            ![candidateId + 1].voteCount = @ + 1],
          totalVotes |-> st.totalVotes + 1]

endElectionEffect(caller) ==
    LET err == endElectionRevert(caller) IN
    /\ electionEnded' = IF err = OK THEN TRUE ELSE electionEnded
    /\ UNCHANGED <<admin, startTime, endTime, electionStarted, candidates,
                   voters, totalVotes>>

\* The functions called directly, by any account: the outcome is recorded and
\* the block timestamp does not move within the call.
addCandidate(caller, name) ==
    /\ Called("addCandidate", addCandidateRevert(caller))
    /\ addCandidateEffect(caller, name)
    /\ UNCHANGED <<now, req, api>>

registerVoter(caller, voter) ==
    /\ Called("registerVoter", registerVoterRevert(caller, voter))
    /\ registerVoterEffect(caller, voter)
    /\ UNCHANGED <<now, req, api>>

startElection(caller, durationInMinutes) ==
    /\ Called("startElection", startElectionRevert(caller))
    /\ startElectionEffect(caller, durationInMinutes)
    /\ UNCHANGED <<now, req, api>>

vote(caller, candidateId) ==
    /\ Called("vote", voteRevert(caller, candidateId))
    /\ voteEffect(caller, candidateId)
    /\ UNCHANGED <<now, req, api>>

endElection(caller) ==
    /\ Called("endElection", endElectionRevert(caller))
    /\ endElectionEffect(caller)
    /\ UNCHANGED <<now, req, api>>

\* A read-only call of getResults: no storage changes, the outcome is observed.
callGetResults ==
    /\ Called("getResults", getResultsRevert)
    /\ UNCHANGED <<ledger, now, req, api>>

\* A read-only call of getElectionStatus.
callGetElectionStatus ==
    /\ Called("getElectionStatus", OK)
    /\ UNCHANGED <<ledger, now, req, api>>

\* The ledger's clock: block.timestamp of the next block.
Tick ==
    /\ now + BlockInterval <= MaxTime
    /\ now' = now + BlockInterval
    /\ UNCHANGED <<ledger, last, req, api>>

\* GET /api/results up to its second await: the getElectionStatus read and
\* the isEnded test on it.
apiResultsStatus ==
    /\ req.pc = "idle"
    /\ req' = IF ~electionEnded
              THEN [pc |-> "idle", results |-> NoResults,
                    resp |-> [NoResponse EXCEPT !.status = HttpForbidden,
                                                !.error = ErrNotEnded]]
              ELSE [pc |-> "getResults", results |-> NoResults,
                    resp |-> NoResponse]
    /\ UNCHANGED <<ledger, now, last, api>>

\* The getResults read; a revert is caught and answered 500.
apiResultsGetResults ==
    /\ req.pc = "getResults"
    /\ req' = IF getResultsRevert # OK
              THEN [pc |-> "idle", results |-> NoResults,
                    resp |-> [NoResponse EXCEPT !.status = HttpServerError,
                                                !.error = getResultsRevert]]
              ELSE [req EXCEPT !.pc = "totalVotes", !.results = getResults]
    /\ UNCHANGED <<ledger, now, last, api>>

\* The totalVotes read, then the formatting, the sort and the answer.
apiResultsTotalVotes ==
    /\ req.pc = "totalVotes"
    /\ req' = [pc |-> "idle", results |-> NoResults,
               resp |-> [status |-> HttpOk, error |-> "",
                         totalVotes |-> totalVotes,
                         candidates |-> SortByVotes(formatResults(req.results))]]
    /\ UNCHANGED <<ledger, now, last, api>>

Next ==
    \/ \E c \in Accounts, n \in Names : addCandidate(c, n)
    \/ \E c \in Accounts, v \in Accounts : registerVoter(c, v)
    \/ \E c \in Accounts, d \in Durations : startElection(c, d)
    \/ \E c \in Accounts, i \in CandidateIds : vote(c, i)
    \/ \E c \in Accounts : endElection(c)
    \/ callGetResults
    \/ callGetElectionStatus
    \/ Tick

ApiNext ==
    \/ apiResultsStatus
    \/ apiResultsGetResults
    \/ apiResultsTotalVotes

\* The contract alone, called directly.
Spec == Init /\ [][Next]_vars

\* The contract together with a client of GET /api/results, whose three reads
\* interleave with the transactions of everybody else.
NextApi == Next \/ ApiNext

SpecApi == Init /\ [][NextApi]_vars

\* ------------------------------------------- the API's write endpoints
HttpCreated == 201
HttpBadRequest == 400
HttpUnauthorized == 401

\* The x-api-key header of a request: absent, some other key, or the
\* configured ADMIN_API_KEY.
NoKey == ""
AdminApiKey == "admin-api-key"
ApiKeys == {NoKey, "other-key", AdminApiKey}

\* ADMIN_ADDRESS, the wallet the admin endpoints sign with: the deployer.
adminWallet == Deployer

\* Account identifiers a request body carries: a well-formed address, an
\* empty field, or a string that is not an address.
ApiVoters == {"v1"}
NoAddress == ""
BadAddress == "0xzz"
ApiAddresses == ApiVoters \cup {NoAddress, BadAddress}
ApiNames == Names \cup {""}
ApiCandidateIds == CandidateIds \cup {-1}

\* Two requests at most are handled at once.
Slots == {1, 2}

ErrAdminRequired == "Unauthorized: Admin access required"
ErrNameRequired == "Candidate name is required"
ErrVoterAddressRequired == "Voter Ethereum address is required"
ErrInvalidAddress == "Invalid Ethereum address"
ErrCandidateIdInvalid == "Candidate ID must be a non-negative integer"
ErrAddressRequired == "Voter address is required"
ErrApiNotRegistered == "Voter is not registered"
ErrApiAlreadyVoted == "Voter has already cast a vote"
\* Errors web3 and the node raise: an argument that is not an address, a nonce
\* below the account's transaction count, a nonce a pending transaction of the
\* same account already holds (at the same gas price).
ErrWeb3Validator == "Web3 validator found 1 error[s]"
ErrNonceTooLow == "nonce too low"
ErrUnderpriced == "replacement transaction underpriced"

\* A handler that has answered (status 0: nothing handled yet).  calls counts
\* the requests the handler made to the ledger's node.
Idle(status, error, calls) ==
    [pc |-> "idle", kind |-> "", who |-> "", num |-> 0, from |-> "",
     nonce |-> 0, status |-> status, error |-> error, calls |-> calls]

\* A handler that has built its contract method and entered sendTransaction:
\* who is the name or address argument, num the duration or candidate id.
InFlight(kind, who, num, from, calls) ==
    [pc |-> "estimateGas", kind |-> kind, who |-> who, num |-> num,
     from |-> from, nonce |-> 0, status |-> 0, error |-> "", calls |-> calls]

\* No pair of racing votes has been seen.  Once one is: valid tells whether
\* both transactions would have succeeded when the second request passed the
\* pre-check, base is totalVotes at that moment, done and ok count the
\* requests of the pair answered and answered with success.
NoRace == [open |-> FALSE, valid |-> FALSE, base |-> 0, done |-> 0, ok |-> 0]

\* The status of a success: 201 for the two creating endpoints, 200 otherwise.
okStatus(kind) ==
    IF kind \in {"addCandidate", "registerVoter"} THEN HttpCreated ELSE HttpOk

\* The middleware with the test for a missing header only.
adminAuth_presentOnly(key) == key # NoKey

\* The middleware lets the request through.
adminAuth(key) == ~(key = NoKey \/ key # AdminApiKey)

\* The lowest free handler takes the next request.
Free(s) == tx[s].pc = "idle" /\ \A r \in Slots : r < s => tx[r].pc # "idle"

\* addCandidate transactions on their way (the bound on the list counts them).
PendingCandidates == Cardinality({r \in Slots : tx[r].kind = "addCandidate"})

\* The revert reason of a request's contract call in the current state.
txRevert(r) ==
    CASE r.kind = "addCandidate" -> addCandidateRevert(r.from)
      [] r.kind = "registerVoter" -> registerVoterRevert(r.from, r.who)
      [] r.kind = "startElection" -> startElectionRevert(r.from)
      [] r.kind = "endElection" -> endElectionRevert(r.from)
      [] r.kind = "vote" -> voteRevert(r.from, r.num)

\* The storage writes of a request's contract call.
txEffect(r) ==
    CASE r.kind = "addCandidate" -> addCandidateEffect(r.from, r.who)
      [] r.kind = "registerVoter" -> registerVoterEffect(r.from, r.who)
      [] r.kind = "startElection" -> startElectionEffect(r.from, r.num)
      [] r.kind = "endElection" -> endElectionEffect(r.from)
      [] r.kind = "vote" -> voteEffect(r.from, r.num)

\* The handler in slot s answers.  While a pair of racing votes is being
\* followed, the answer to a vote request is counted.
Answer(s, status, error, calls) ==
    /\ tx' = [tx EXCEPT ![s] = Idle(status, error, calls)]
    /\ race' = IF race.open /\ race.done < 2 /\ tx[s].kind = "vote"
               THEN [race EXCEPT !.done = @ + 1,
                                 !.ok = @ + (IF status = HttpOk THEN 1 ELSE 0)]
               ELSE race

\* A request rejected before sendTransaction is entered.
Reject(s, status, error, calls) ==
    /\ tx' = [tx EXCEPT ![s] = Idle(status, error, calls)]
    /\ UNCHANGED race

\* An admin endpoint up to its first await: adminAuth, the validators, the
\* contract method; answer is the rejection of the body, if any.
adminEndpoint(s, key, status, error, kind, who, num) ==
    /\ IF ~adminAuth(key)
       THEN Reject(s, HttpUnauthorized, ErrAdminRequired, 0)
       ELSE IF error # OK
       THEN Reject(s, status, error, 0)
       ELSE /\ tx' = [tx EXCEPT ![s] = InFlight(kind, who, num, adminWallet, 0)]
            /\ UNCHANGED race
    /\ UNCHANGED <<ledger, now, last, req, nonces, sent>>

\* POST /api/candidates.
apiAddCandidate(s, key, name) ==
    /\ Free(s)
    /\ adminAuth(key) /\ name # "" =>
           Len(candidates) + PendingCandidates < MaxCandidates
    /\ adminEndpoint(s, key, HttpBadRequest,
                     IF name = "" THEN ErrNameRequired ELSE OK,
                     "addCandidate", name, 0)

\* POST /api/voters/register without the isAddress test.
apiRegisterVoter_noIsAddress(s, key, voterAddress) ==
    /\ Free(s)
    /\ adminEndpoint(s, key, HttpBadRequest,
                     IF voterAddress = NoAddress THEN ErrVoterAddressRequired
                     ELSE OK,
                     "registerVoter", voterAddress, 0)

\* POST /api/voters/register.
apiRegisterVoter(s, key, voterAddress) ==
    /\ Free(s)
    /\ adminEndpoint(s, key, HttpBadRequest,
                     IF voterAddress = NoAddress THEN ErrVoterAddressRequired
                     ELSE IF voterAddress = BadAddress THEN ErrInvalidAddress
                     ELSE OK,
                     "registerVoter", voterAddress, 0)

\* POST /api/election/start.
apiStartElection(s, key, durationInMinutes) ==
    /\ Free(s)
    /\ adminEndpoint(s, key, HttpBadRequest,
                     IF durationInMinutes < 1 THEN ErrInvalidDuration ELSE OK,
                     "startElection", "", durationInMinutes)

\* POST /api/election/end.
apiEndElection(s, key) ==
    /\ Free(s)
    /\ adminEndpoint(s, key, HttpBadRequest, OK, "endElection", "", 0)

\* POST /api/vote up to the await of sendTransaction's estimateGas: the
\* validators, then the read of voters(voterAddress) and the two tests on it.
\* (The request's private key is the key of voterAddress.)
apiVote(s, candidateId, voterAddress) ==
    /\ Free(s)
    /\ IF candidateId < 0
       THEN Reject(s, HttpBadRequest, ErrCandidateIdInvalid, 0)
       ELSE IF voterAddress = NoAddress
       THEN Reject(s, HttpBadRequest, ErrAddressRequired, 0)
       ELSE IF voterAddress = BadAddress
       THEN Reject(s, HttpServerError, ErrWeb3Validator, 0)
       ELSE IF ~voters[voterAddress].isRegistered
       THEN Reject(s, HttpForbidden, ErrApiNotRegistered, 1)
       ELSE IF voters[voterAddress].hasVoted
       THEN Reject(s, HttpForbidden, ErrApiAlreadyVoted, 1)
       ELSE /\ tx' = [tx EXCEPT ![s] = InFlight("vote", voterAddress,
                                                candidateId, voterAddress, 1)]
            /\ race' = IF \E r \in Slots : /\ tx[r].kind = "vote"
                                           /\ tx[r].who = voterAddress
                       THEN [open |-> TRUE,
                             valid |-> \A r \in Slots :
                                          tx'[r].kind = "vote" =>
                                              txRevert(tx'[r]) = OK,
                             base |-> totalVotes, done |-> 0, ok |-> 0]
                       ELSE race
    /\ UNCHANGED <<ledger, now, last, req, nonces, sent>>

\* sendTransaction, line 70: the call is simulated on the current state; a
\* revert is thrown to the handler's catch.
apiEstimateGas(s) ==
    /\ tx[s].pc = "estimateGas"
    /\ IF txRevert(tx[s]) # OK
       THEN Answer(s, HttpServerError, txRevert(tx[s]), tx[s].calls + 1)
       ELSE /\ tx' = [tx EXCEPT ![s].pc = "getTransactionCount",
                                 ![s].calls = @ + 1]
            /\ UNCHANGED race
    /\ UNCHANGED <<ledger, now, last, req, nonces, sent>>

\* Line 72: the nonce is the signer's transaction count at this moment.
apiGetTransactionCount(s) ==
    /\ tx[s].pc = "getTransactionCount"
    /\ tx' = [tx EXCEPT ![s].pc = "getGasPrice",
                        ![s].nonce = nonces[tx[s].from],
                        ![s].calls = @ + 1]
    /\ UNCHANGED <<ledger, now, last, req, nonces, sent, race>>

\* getGasPrice handing the transaction to the node unsigned.
apiGetGasPrice_skipSign(s) ==
    /\ tx[s].pc = "getGasPrice"
    /\ tx' = [tx EXCEPT ![s].pc = "sendSignedTransaction", ![s].calls = @ + 1]
    /\ UNCHANGED <<ledger, now, last, req, nonces, sent, race>>

\* Line 73.
apiGetGasPrice(s) ==
    /\ tx[s].pc = "getGasPrice"
    /\ tx' = [tx EXCEPT ![s].pc = "signTransaction", ![s].calls = @ + 1]
    /\ UNCHANGED <<ledger, now, last, req, nonces, sent, race>>

\* Line 84: the signature is computed locally.
apiSignTransaction(s) ==
    /\ tx[s].pc = "signTransaction"
    /\ tx' = [tx EXCEPT ![s].pc = "sendSignedTransaction"]
    /\ UNCHANGED <<ledger, now, last, req, nonces, sent, race>>

\* Line 85, the submission: the node refuses a nonce that is used up or that
\* a pending transaction of the signer holds, and queues the others.
apiSendSignedTransaction(s) ==
    /\ tx[s].pc = "sendSignedTransaction"
    /\ sent' = [sent EXCEPT ![tx[s].from] =
                   IF tx[s].nonce > @ THEN tx[s].nonce ELSE @]
    /\ IF tx[s].nonce < nonces[tx[s].from]
       THEN Answer(s, HttpServerError, ErrNonceTooLow, tx[s].calls + 1)
       ELSE IF \E r \in Slots : /\ tx[r].pc = "pending"
                                /\ tx[r].from = tx[s].from
                                /\ tx[r].nonce = tx[s].nonce
       THEN Answer(s, HttpServerError, ErrUnderpriced, tx[s].calls + 1)
       ELSE /\ tx' = [tx EXCEPT ![s].pc = "pending", ![s].calls = @ + 1]
            /\ UNCHANGED race
    /\ UNCHANGED <<ledger, now, last, req, nonces>>

\* Line 85, the receipt: the transaction is mined in the current block, the
\* contract runs it, and the handler answers (a reverted transaction is
\* thrown to its catch).
apiMined(s) ==
    /\ tx[s].pc = "pending"
    /\ tx[s].nonce = nonces[tx[s].from]
    /\ txEffect(tx[s])
    /\ nonces' = [nonces EXCEPT ![tx[s].from] = @ + 1]
    /\ IF txRevert(tx[s]) = OK
       THEN Answer(s, okStatus(tx[s].kind), OK, tx[s].calls)
       ELSE Answer(s, HttpServerError, txRevert(tx[s]), tx[s].calls)
    /\ UNCHANGED <<now, last, req, sent>>

\* sendTransaction, whoever entered it.
SendTransactionNext ==
    \E s \in Slots :
        \/ apiEstimateGas(s)
        \/ apiGetTransactionCount(s)
        \/ apiGetGasPrice(s)
        \/ apiSignTransaction(s)
        \/ apiSendSignedTransaction(s)
        \/ apiMined(s)

\* The admin endpoints, two requests at a time, on a ledger only they write,
\* within one block time.
NextAdminTx ==
    \/ \E s \in Slots, k \in ApiKeys, n \in ApiNames : apiAddCandidate(s, k, n)
    \/ \E s \in Slots, k \in ApiKeys, v \in ApiAddresses : apiRegisterVoter(s, k, v)
    \/ \E s \in Slots, k \in ApiKeys, d \in Durations : apiStartElection(s, k, d)
    \/ \E s \in Slots, k \in ApiKeys : apiEndElection(s, k)
    \/ SendTransactionNext

SpecAdminTx == Init /\ [][NextAdminTx]_vars

\* POST /api/vote, two requests at a time, while time passes and the
\* administrator calls the contract directly (with a duration of a minute
\* at least; the calls that revert change nothing and are left out).
NextVoteTx ==
    \/ \E s \in Slots, i \in ApiCandidateIds, v \in ApiAddresses : apiVote(s, i, v)
    \/ SendTransactionNext
    \/ \E n \in Names : addCandidateRevert(admin) = OK /\ addCandidate(admin, n)
    \/ \E v \in ApiVoters :
           registerVoterRevert(admin, v) = OK /\ registerVoter(admin, v)
    \/ \E d \in Durations \ {0} :
           startElectionRevert(admin) = OK /\ startElection(admin, d)
    \/ endElectionRevert(admin) = OK /\ endElection(admin)
    \/ Tick

SpecVoteTx == Init /\ [][NextVoteTx]_vars

\* The two endpoints whose body carries an account identifier, two requests
\* at a time within one block time: registrations sent with the admin key and
\* votes, while the administrator adds candidates and starts and ends the
\* election by calling the contract (the calls that revert change nothing and
\* are left out).
NextVoterTx ==
    \/ \E s \in Slots, v \in ApiAddresses : apiRegisterVoter(s, AdminApiKey, v)
    \/ \E s \in Slots, i \in ApiCandidateIds, v \in ApiAddresses : apiVote(s, i, v)
    \/ SendTransactionNext
    \/ \E n \in Names : addCandidateRevert(admin) = OK /\ addCandidate(admin, n)
    \/ startElectionRevert(admin) = OK /\ startElection(admin, MaxDuration)
    \/ endElectionRevert(admin) = OK /\ endElection(admin)

SpecVoterTx == Init /\ [][NextVoterTx]_vars

\* ----------------------------------------------------------------- claims
InWindow == electionStarted /\ ~electionEnded /\ startTime <= now /\ now <= endTime

RECURSIVE SumVotes(_)
SumVotes(cs) == IF cs = <<>> THEN 0 ELSE Head(cs).voteCount + SumVotes(Tail(cs))

Voted == {v \in Accounts : voters[v].hasVoted}

\* Some existing candidate's voteCount, or totalVotes, differs after the step.
CountsChange ==
    \/ totalVotes' # totalVotes
    \/ \E i \in 1..Len(candidates) :
          i > Len(candidates') \/ candidates'[i].voteCount # candidates[i].voteCount

\* C1: once hasVoted(v) is true it stays true, and votedCandidateId(v) keeps
\* the value written in the step that set it, whatever operation follows.
C1_SingleVote ==
    [][\A v \in Accounts :
          voters[v].hasVoted =>
             /\ voters'[v].hasVoted
             /\ voters'[v].votedCandidateId = voters[v].votedCandidateId]_vars

C1_Witness ==
    /\ \E v \in Accounts : voters[v].hasVoted /\ voters[v].votedCandidateId = 1
    /\ last = [op |-> "registerVoter", err |-> ErrAlreadyRegistered]

\* C2: totalVotes is the sum of the candidates' voteCount and the number of
\* accounts whose hasVoted is true.
C2_TallyConsistent ==
    /\ totalVotes = SumVotes(candidates)
    /\ totalVotes = Cardinality(Voted)

C2_Witness ==
    /\ totalVotes = 2
    /\ Len(candidates) = 2
    /\ candidates[1].voteCount = 1
    /\ candidates[2].voteCount = 1

\* C3: electionStarted and electionEnded only go from false to true, ended is
\* never true while started is false, and no step goes from Created to Ended.
C3_PhaseMonotonic ==
    /\ [](electionEnded => electionStarted)
    /\ [][/\ electionStarted => electionStarted'
          /\ electionEnded => electionEnded'
          /\ ~electionStarted => ~electionEnded']_vars

C3_Witness ==
    /\ electionEnded
    /\ last = [op |-> "startElection", err |-> ErrAlreadyStarted]

\* C4: vote counts and totalVotes change only in a step taken while the
\* election is started, not ended and startTime <= now <= endTime; a vote
\* before the start, after the end or after endTime is rejected with an
\* ElectionNotActive reason and changes no count.
C4_CountsOnlyInWindow ==
    /\ [][CountsChange => InWindow]_vars
    /\ [][\A c \in Accounts, i \in CandidateIds :
             (vote(c, i) /\ (~electionStarted \/ electionEnded \/ now > endTime))
                => (last'.err \in ElectionNotActive /\ ~CountsChange)]_vars

C4_Witness ==
    /\ last = [op |-> "vote", err |-> ErrNotActive]
    /\ totalVotes = 1
    /\ now > endTime
    /\ endTime > startTime

\* C5: getResults reverts with ElectionNotEnded exactly while electionEnded
\* is false and otherwise returns one entry per candidate; GET /api/results
\* answers 403 with that reason, or 200 with one entry per candidate, never
\* 500, and is past its isEnded test or has answered 200 only in states where
\* the election has ended; a getResults call that succeeded was made after
\* the end.
C5_ResultsGated ==
    /\ ~electionEnded <=> getResultsRevert \in ElectionNotEnded
    /\ electionEnded =>
          /\ getResultsRevert = OK
          /\ Len(getResults.ids) = Len(candidates)
          /\ Len(getResults.voteCounts) = Len(candidates)
    /\ (last.op = "getResults" /\ last.err = OK) => electionEnded
    /\ req.pc \in {"getResults", "totalVotes"} => electionEnded
    /\ req.resp.status \in {0, HttpForbidden, HttpOk}
    /\ req.resp.status = HttpForbidden => req.resp.error \in ElectionNotEnded
    /\ req.resp.status = HttpOk =>
          /\ electionEnded
          /\ Len(req.resp.candidates) = Len(candidates)
    /\ ~electionEnded => req.resp.candidates = <<>>

C5_Witness ==
    /\ req.resp.status = HttpOk
    /\ Len(req.resp.candidates) = 2
    /\ req.resp.totalVotes = 1
    /\ last = [op |-> "getResults", err |-> OK]

\* C6 as stated: a vote by an account that has voted fails with AlreadyVoted
\* in every state, changing nothing.
C6_Original ==
    [][\A c \in Accounts, i \in CandidateIds :
          (voters[c].hasVoted /\ vote(c, i))
             => (last'.err \in AlreadyVoted /\ UNCHANGED ledger)]_vars

\* C6 amended: a vote by an account that has voted fails and changes nothing;
\* the reason is AlreadyVoted while the election is active within its window
\* and an ElectionNotActive reason otherwise.
C6_SecondVoteRejected ==
    [][\A c \in Accounts, i \in CandidateIds :
          (voters[c].hasVoted /\ vote(c, i))
             => /\ UNCHANGED ledger
                /\ last'.err \in (IF InWindow THEN AlreadyVoted
                                              ELSE ElectionNotActive)]_vars

C6_Witness ==
    /\ last = [op |-> "vote", err |-> ErrAlreadyVoted]
    /\ totalVotes = 1

\* C7: once isRegistered(v) is true no step sets it back to false.
C7_RegistrationMonotonic ==
    [][\A v \in Accounts :
          voters[v].isRegistered => voters'[v].isRegistered]_vars

C7_Witness ==
    /\ \E v \in Accounts : voters[v].isRegistered /\ voters[v].hasVoted
    /\ electionEnded
    /\ last = [op |-> "registerVoter", err |-> OK]

\* C8: the administrator is the deployer, and addCandidate, registerVoter,
\* startElection and endElection called by any other account fail with
\* Unauthorized and leave the storage unchanged.
C8_OnlyAdmin ==
    /\ [](admin = Deployer)
    /\ [][\A c \in Accounts \ {Deployer} :
             (\/ \E n \in Names : addCandidate(c, n)
              \/ \E v \in Accounts : registerVoter(c, v)
              \/ \E d \in Durations : startElection(c, d)
              \/ endElection(c))
                => (last'.err \in Unauthorized /\ UNCHANGED ledger)]_vars

C8_Witness ==
    /\ last = [op |-> "endElection", err |-> ErrOnlyAdmin]
    /\ InWindow

\* C9: addCandidate by the administrator once the election has started fails
\* with ElectionAlreadyStarted, and the candidate list keeps its length from
\* then on.
C9_NoCandidateAfterStart ==
    /\ [][\A n \in Names :
             (electionStarted /\ addCandidate(admin, n))
                => (last'.err \in ElectionAlreadyStarted
                    /\ candidates' = candidates)]_vars
    /\ [][electionStarted => Len(candidates') = Len(candidates)]_vars

C9_Witness ==
    /\ last = [op |-> "addCandidate", err |-> ErrCandidateAfterStart]
    /\ now > endTime
    /\ ~electionEnded

\* C10 as stated: a vote by an unregistered account fails with NotRegistered
\* in every state, changing nothing.
C10_Original ==
    [][\A c \in Accounts, i \in CandidateIds :
          (~voters[c].isRegistered /\ vote(c, i))
             => (last'.err \in NotRegistered /\ UNCHANGED ledger)]_vars

\* C10 amended: a vote by an unregistered account fails and changes nothing;
\* the reason is NotRegistered while the election is active within its
\* window and an ElectionNotActive reason otherwise.
C10_UnregisteredRejected ==
    [][\A c \in Accounts, i \in CandidateIds :
          (~voters[c].isRegistered /\ vote(c, i))
             => /\ UNCHANGED ledger
                /\ last'.err \in (IF InWindow THEN NotRegistered
                                              ELSE ElectionNotActive)]_vars

C10_Witness ==
    /\ last = [op |-> "vote", err |-> ErrNotRegistered]
    /\ totalVotes = 1

\* C11 as stated: registerVoter for a registered account fails with
\* AlreadyRegistered, whoever calls it, and leaves that record unchanged.
C11_Original ==
    [][\A c \in Accounts, v \in Accounts :
          (voters[v].isRegistered /\ registerVoter(c, v))
             => (last'.err \in AlreadyRegistered /\ voters'[v] = voters[v])]_vars

\* C11 amended: registerVoter for a registered account leaves that record
\* unchanged; it fails with AlreadyRegistered when the administrator calls
\* it and with Unauthorized when anybody else does.
C11_NoDoubleRegistration ==
    [][\A c \in Accounts, v \in Accounts :
          (voters[v].isRegistered /\ registerVoter(c, v))
             => /\ voters'[v] = voters[v]
                /\ last'.err \in (IF c = admin THEN AlreadyRegistered
                                               ELSE Unauthorized)]_vars

C11_Witness ==
    /\ last = [op |-> "registerVoter", err |-> ErrAlreadyRegistered]
    /\ \A v \in Accounts : voters[v].isRegistered
    /\ electionEnded

\* C12 as stated: whenever the election has been started, endTime is
\* strictly greater than startTime.
C12_Original == electionStarted => endTime > startTime

\* C13 as stated: startElection by the administrator in the Created phase
\* with a duration below 1 is rejected with InvalidDuration, the phase
\* staying Created and the times unset.
C13_Original ==
    [][\A d \in Durations :
          (d < 1 /\ ~electionStarted /\ Len(candidates) > 0
                 /\ startElection(admin, d))
             => /\ last'.err \in InvalidDuration
                /\ ~electionStarted'
                /\ startTime' = 0 /\ endTime' = 0]_vars

\* A step that is one of the five operations, by any caller on any input.
OperationStep ==
    \E c \in Accounts :
       \/ \E n \in Names : addCandidate(c, n)
       \/ \E v \in Accounts : registerVoter(c, v)
       \/ \E d \in Durations : startElection(c, d)
       \/ \E i \in CandidateIds : vote(c, i)
       \/ endElection(c)

\* C16: an operation that fails, for whatever reason, leaves the whole
\* storage of the contract as it was.
C16_FailureIsAtomic ==
    [][(OperationStep /\ last'.err # OK) => UNCHANGED ledger]_vars

C16_Witness ==
    /\ last = [op |-> "vote", err |-> ErrInvalidCandidate]
    /\ totalVotes = 1
    /\ InWindow

\* C17 as stated: a step that applies no mutation leaves all five fields of
\* getElectionStatus as they were, so two calls around it agree.
C17_Original ==
    [][UNCHANGED ledger => getElectionStatus' = getElectionStatus]_vars

\* C17 amended: with no mutation in between, two getElectionStatus calls
\* agree on isStarted, isEnded, start and end; they agree on currentTime as
\* well only when no block was produced in between.
C17_StatusReadsAgree ==
    /\ [][UNCHANGED ledger =>
            /\ getElectionStatus'.isStarted = getElectionStatus.isStarted
            /\ getElectionStatus'.isEnded = getElectionStatus.isEnded
            /\ getElectionStatus'.start = getElectionStatus.start
            /\ getElectionStatus'.end = getElectionStatus.end]_vars
    /\ [][UNCHANGED <<ledger, now>> =>
            getElectionStatus' = getElectionStatus]_vars

C17_Witness ==
    /\ last = [op |-> "getElectionStatus", err |-> OK]
    /\ electionStarted /\ ~electionEnded
    /\ now > endTime

\* C18: the candidates of a 200 answer are the ledger's candidates, each
\* once, in non-increasing voteCount order, ties in ascending id order.
C18_ResultsSorted ==
    req.resp.status = HttpOk =>
       LET out == req.resp.candidates IN
       /\ Len(out) = Len(candidates)
       /\ \A c \in 1..Len(candidates) :
             \E i \in 1..Len(out) :
                /\ out[i].id = candidates[c].id
                /\ out[i].name = candidates[c].name
                /\ out[i].voteCount = candidates[c].voteCount
       /\ \A i, j \in 1..Len(out) :
             i < j => \/ out[i].voteCount > out[j].voteCount
                      \/ /\ out[i].voteCount = out[j].voteCount
                         /\ out[i].id < out[j].id

C18_Witness ==
    /\ req.resp.status = HttpOk
    /\ Len(req.resp.candidates) = 2
    /\ req.resp.candidates[1].id = 1
    /\ req.resp.candidates[1].voteCount = 2

\* The window has elapsed and nobody ended the election.
Stale == electionStarted /\ ~electionEnded /\ now > endTime

\* C20 as stated: endElection takes effect only inside the window; once the
\* window has elapsed unended, every endElection fails with
\* ElectionNotActive, the election stays unended and getResults reverts.
C20_Original ==
    /\ [][(~electionEnded /\ electionEnded') => InWindow]_vars
    /\ [][Stale => Stale']_vars
    /\ [](Stale => getResultsRevert \in ElectionNotEnded)
    /\ [][\A c \in Accounts :
             (Stale /\ endElection(c))
                => last'.err \in ElectionNotActive]_vars

\* C20 amended: the same, the reason being ElectionNotActive for the
\* administrator and Unauthorized for every other caller.
C20_StaleForever ==
    /\ [][(~electionEnded /\ electionEnded') => InWindow]_vars
    /\ [][Stale => Stale']_vars
    /\ [](Stale => getResultsRevert \in ElectionNotEnded)
    /\ [][\A c \in Accounts :
             (Stale /\ endElection(c))
                => /\ ~electionEnded'
                   /\ last'.err \in (IF c = admin THEN ElectionNotActive
                                                  ELSE Unauthorized)]_vars

C20_Witness ==
    /\ Stale
    /\ last = [op |-> "endElection", err |-> ErrNotActive]
    /\ totalVotes = 1

\* C14: two submissions signed by one account never carry the same nonce, and
\* their nonces increase in the order of submission: every submission's nonce
\* is above all the signer submitted before.
C14_Original ==
    [][\A s \in Slots :
          apiSendSignedTransaction(s) => tx[s].nonce > sent[tx[s].from]]_vars

\* C15, as stated: of two concurrent vote requests of one voter that both
\* passed the pre-check (and named a candidate, the election being active
\* within its window), exactly one is applied (totalVotes and one voteCount
\* rise by exactly one) and the other fails.
C15_Original ==
    race.valid /\ race.done = 2 =>
        /\ race.ok = 1
        /\ totalVotes = race.base + 1
        /\ SumVotes(candidates) = race.base + 1

\* C15: of two concurrent vote requests of one voter that both passed the
\* pre-check, the ledger applies at most one: at most one is answered with
\* success, at least one fails, totalVotes and the voteCounts together rise
\* by at most one, and by one when a request succeeded.
C15_AtMostOneApplied ==
    race.open =>
        /\ race.ok <= 1
        /\ race.done = 2 => race.ok < race.done
        /\ totalVotes <= race.base + 1
        /\ SumVotes(candidates) = totalVotes
        /\ race.ok = 1 => totalVotes = race.base + 1

C15_Witness == race.done = 2 /\ race.ok = 1 /\ totalVotes = race.base + 1

\* The request the step handles is to one of the four admin endpoints and
\* carries key k.
AdminRequest(s, k) ==
    \/ \E n \in ApiNames : apiAddCandidate(s, k, n)
    \/ \E v \in ApiAddresses : apiRegisterVoter(s, k, v)
    \/ \E d \in Durations : apiStartElection(s, k, d)
    \/ apiEndElection(s, k)

\* C19: a request to an admin endpoint without the x-api-key header, or with
\* a key other than the configured one, is answered 401 having made no request
\* to the ledger (no read, estimate or submission); the ledger is unchanged.
C19_UnauthorizedDoesNothing ==
    [][\A s \in Slots :
          tx'[s] # tx[s] =>
              \A k \in ApiKeys \ {AdminApiKey} :
                  AdminRequest(s, k) =>
                      /\ tx'[s].pc = "idle"
                      /\ tx'[s].status = HttpUnauthorized
                      /\ tx'[s].calls = 0
                      /\ UNCHANGED <<ledger, nonces, sent>>]_vars

C19_Witness ==
    \E s \in Slots : /\ tx[s].status = HttpUnauthorized
                     /\ electionStarted
                     /\ \E r \in Slots : tx[r].pc = "pending"

\* The steps of sendTransaction in the order the code awaits them, the wait
\* for the receipt last.
SendOrder ==
    <<"estimateGas", "getTransactionCount", "getGasPrice", "signTransaction",
      "sendSignedTransaction", "pending">>

\* The order with the nonce fetched before the cost is estimated.
NonceFirstOrder ==
    <<"getTransactionCount", "estimateGas", "getGasPrice", "signTransaction",
      "sendSignedTransaction", "pending">>

Succeeded(r) == r.pc = "idle" /\ r.status \in {HttpOk, HttpCreated}

\* In this step the handler in slot s moves along order, skipping nothing:
\* it enters at the first step, goes from each step to the next one or to a
\* failure answer, and answers a success only from the last.
StepsFollow(s, order) ==
    /\ tx[s].pc = "idle" => tx'[s].pc \in {"idle", order[1]}
    /\ \A i \in 1..Len(order) :
          tx[s].pc = order[i] =>
              \/ i < Len(order) /\ tx'[s].pc = order[i + 1]
              \/ i = Len(order) /\ Succeeded(tx'[s])
              \/ tx'[s].pc = "idle" /\ tx'[s].status = HttpServerError

RefusedUntouched(s, status) ==
    /\ tx'[s].pc = "idle"
    /\ tx'[s].status = status
    /\ tx'[s].calls = 0
    /\ UNCHANGED <<ledger, nonces, sent>>

\* The account identifier is empty or is not an address.
Malformed(v) == v \in {NoAddress, BadAddress}

C23_VotesCommute ==
    /\ [](InWindow =>
            \A c1, c2 \in Accounts, i, j \in CandidateIds :
                /\ c1 # c2
                /\ voteRevert(c1, i) = OK
                /\ voteRevert(c2, j) = OK
                => /\ voteRevertOn(voteOn(Tally, c1, i), c2, j) = OK
                   /\ voteOn(voteOn(Tally, c1, i), c2, j)
                         = voteOn(voteOn(Tally, c2, j), c1, i))
    /\ [][\A c \in Accounts :
             voters'[c] # voters[c] /\ InWindow =>
                 \A i \in CandidateIds :
                     vote(c, i) => Tally' = voteOn(Tally, c, i)]_vars

C23_Witness ==
    /\ InWindow
    /\ \E c1, c2 \in Accounts :
          /\ c1 # c2
          /\ voters[c1].hasVoted /\ voters[c2].hasVoted
          /\ voters[c1].votedCandidateId # voters[c2].votedCandidateId

\* C24: registerVoter called by the administrator for an account not yet
\* registered succeeds in every phase (before the start, within the window,
\* after the window has elapsed, after the end) and leaves the account
\* registered with hasVoted false; registered within the window, the account
\* can vote for every candidate.
C24_RegistrationAlwaysOpen ==
    [][\A v \in Accounts :
          ~voters[v].isRegistered /\ registerVoter(admin, v) =>
              /\ last'.err = OK
              /\ voters'[v].isRegistered
              /\ ~voters'[v].hasVoted
              /\ \A u \in Accounts \ {v} : voters'[u] = voters[u]
              /\ InWindow =>
                    \A i \in 0..(Len(candidates) - 1) : voteRevert(v, i)' = OK]_vars

C24_Witness ==
    /\ last = [op |-> "registerVoter", err |-> OK]
    /\ Stale
    /\ \E v \in Accounts : voters[v].isRegistered /\ voters[v].hasVoted
    /\ \E v \in Accounts : voters[v].isRegistered /\ ~voters[v].hasVoted

\* C25: the candidate at position i of the list (counted from zero) has
\* identifier i; a candidate enters the list at its end with voteCount 0; no
\* candidate leaves the list or changes its identifier or name, and no
\* voteCount decreases.
C25_CandidateList ==
    /\ [](\A i \in 1..Len(candidates) : candidates[i].id = i - 1)
    /\ [][/\ Len(candidates') >= Len(candidates)
          /\ \A i \in 1..Len(candidates) :
                /\ candidates'[i].id = candidates[i].id
                /\ candidates'[i].name = candidates[i].name
                /\ candidates'[i].voteCount >= candidates[i].voteCount
          /\ \A i \in (Len(candidates) + 1)..Len(candidates') :
                candidates'[i].voteCount = 0]_vars

C25_Witness ==
    /\ Len(candidates) = MaxCandidates
    /\ candidates[MaxCandidates].voteCount > 0
    /\ electionEnded

\* C26, as stated: startElection fails with NoCandidates while the candidate
\* list is empty and with AlreadyStarted once the election has started,
\* whoever calls.
C26_Original ==
    [][\A c \in Accounts, d \in Durations :
          startElection(c, d) =>
              /\ Len(candidates) = 0 => last'.err \in NoCandidates
              /\ electionStarted => last'.err \in AlreadyStarted]_vars

\* C26: startElection called by the administrator fails with NoCandidates
\* while the candidate list is empty and with AlreadyStarted once the election
\* has started (called by anybody else it fails with Unauthorized), changing
\* nothing; so wherever electionStarted is true the list is non-empty, and
\* startTime and endTime keep the values the one successful call gave them.
C26_StartOnce ==
    /\ [](electionStarted => Len(candidates) > 0)
    /\ [][/\ \A c \in Accounts, d \in Durations :
                startElection(c, d) =>
                    /\ c # admin => last'.err \in Unauthorized
                    /\ c = admin /\ Len(candidates) = 0
                          => last'.err \in NoCandidates
                    /\ c = admin /\ electionStarted
                          => last'.err \in AlreadyStarted
                    /\ last'.err # OK => UNCHANGED ledger
                    /\ last'.err = OK =>
                          /\ ~electionStarted /\ electionStarted'
                          /\ startTime' = now
                          /\ endTime' = now + d * MinuteSeconds
          /\ electionStarted =>
                /\ electionStarted'
                /\ startTime' = startTime
                /\ endTime' = endTime]_vars

C26_Witness ==
    /\ last = [op |-> "startElection", err |-> ErrAlreadyStarted]
    /\ electionStarted
    /\ now > startTime
    /\ Len(candidates) = MaxCandidates

\* C27: an account that has voted is registered and its votedCandidateId
\* names a listed candidate; so a successful registerVoter, which needs
\* isRegistered false, is never of an account that has voted, and its write of
\* hasVoted = false erases no vote.
C27_VotedIsRegistered ==
    /\ [](\A v \in Accounts :
            voters[v].hasVoted =>
                /\ voters[v].isRegistered
                /\ voters[v].votedCandidateId < Len(candidates))
    /\ [][\A c, v \in Accounts :
             registerVoter(c, v) /\ last'.err = OK =>
                 /\ ~voters[v].hasVoted
                 /\ \A u \in Accounts :
                       /\ voters'[u].hasVoted = voters[u].hasVoted
                       /\ voters'[u].votedCandidateId = voters[u].votedCandidateId]_vars

C27_Witness ==
    /\ last = [op |-> "registerVoter", err |-> OK]
    /\ \E v \in Accounts : voters[v].hasVoted /\ voters[v].votedCandidateId = 1
    /\ InWindow

\* C28: once electionEnded is true the results are final.  No step changes
\* the candidate list, a voteCount, totalVotes, or the hasVoted and
\* votedCandidateId of any account, and the election stays ended; only the
\* isRegistered of an account not yet registered can still change, to true.
C28_ResultsFinal ==
    [][electionEnded =>
          /\ electionEnded'
          /\ candidates' = candidates
          /\ totalVotes' = totalVotes
          /\ \A v \in Accounts :
                /\ voters'[v].hasVoted = voters[v].hasVoted
                /\ voters'[v].votedCandidateId = voters[v].votedCandidateId
                /\ voters[v].isRegistered => voters'[v].isRegistered]_vars

C28_Witness ==
    /\ electionEnded
    /\ totalVotes > 0
    /\ now <= endTime
    /\ last = [op |-> "registerVoter", err |-> OK]

\* C29: GET /api/results makes three reads, and the transactions of other
\* clients come between them.  Once the status read has reported isEnded the
\* getResults read does not revert (no answer is a 500), the voteCounts it
\* returns sum to what the totalVotes read returns afterwards, and in a 200
\* answer totalVotes is the sum of the voteCounts answered.
C29_ResultsSnapshot ==
    /\ req.pc = "getResults" => getResultsRevert = OK
    /\ req.pc = "totalVotes" =>
          SumVotes(formatResults(req.results)) = totalVotes
    /\ req.resp.status # HttpServerError
    /\ req.resp.status = HttpOk =>
          /\ req.resp.totalVotes = SumVotes(req.resp.candidates)
          /\ req.resp.totalVotes = totalVotes

C29_Witness ==
    /\ req.resp.status = HttpOk
    /\ req.resp.totalVotes = 2
    /\ Len(req.resp.candidates) = MaxCandidates
    /\ last = [op |-> "registerVoter", err |-> OK]

====
